---------------------------- MODULE Spec2Model ----------------------------
(***************************************************************************)
(* A model of the Jira sprint helper (src/src/client.rs, src/src/users.rs, *)
(* src/src/macros.rs, src/src/main.rs).                                    *)
(*                                                                         *)
(* Spec          one run of the program: Client::new, then one of the      *)
(*               commands boards, sprints, issues, report.                 *)
(* SpecIssues    Client::issues on a constructed client.                   *)
(* SpecPartition Client::subtasks (the partitioner) as a function.         *)
(* SpecSummary   Client::summary as a function of Client.width.            *)
(* SpecUsers     the methods of Users on an accumulator.                   *)
(*                                                                         *)
(* Rust's Option<T> is a sequence of length 0 (None) or 1 (Some(x)).       *)
(* A BTreeMap<String, T> is a function whose domain is its set of keys.    *)
(***************************************************************************)
EXTENDS Integers, Sequences, FiniteSets, TLC

VARIABLES
    pc,         \* where the run is: "main", a command's step, "done", "error"
    cmd,        \* the subcommand main dispatches on
    options,    \* the clap::ArgMatches of the subcommand
    width,      \* Client.width: Option<f32> (a whole number of columns)
    requests,   \* the requests issued to the remote service, in order
    edited,     \* the remote service's record of the edits it applied
    board_id,   \* issues, report: the local `board_id`: Option<String>
    issues,     \* the fetched Vec<Issue>
    tasks,      \* the top-level issues returned by Client::subtasks
    subtasks,   \* the subtask map returned by Client::subtasks
    users,      \* the per-assignee accumulator Users
    idx,        \* report: the position in tasks of the loop's current issue
    estimate,   \* report: the loop's local `estimate`
    remaining,  \* report: the loop's local `remaining`
    table,      \* the table handed to print_table: Option<rows>
    err,        \* the Err the command returned: Option<Error>
    call        \* the last call of the function under study and its result

vars == <<pc, cmd, options, width, requests, edited, board_id, issues, tasks,
          subtasks, users, idx, estimate, remaining, table, err, call>>

(***************************************************************************)
(* Bounds of the model.                                                    *)
(***************************************************************************)
MaxIssues == 3
MaxFetched == 2
MaxLen == 70
MaxCalls == 3

(***************************************************************************)
(* Option and BTreeMap.                                                    *)
(***************************************************************************)
None == <<>>

Some(x) == <<x>>

UnwrapOr(o, default) == IF o = None THEN default ELSE o[1]

EmptyMap == [k \in {} |-> None]

MapGet(m, k) == IF k \in DOMAIN m THEN Some(m[k]) ELSE None

MapInsert(m, k, v) == [x \in DOMAIN m \cup {k} |-> IF x = k THEN v ELSE m[x]]

(***************************************************************************)
(* goji::Issue, as far as the program reads it.                            *)
(***************************************************************************)
Key(n) == "K" \o ToString(n)

Story == [name |-> "Story", subtask |-> FALSE]

SubTask == [name |-> "Sub-task", subtask |-> TRUE]

NoIssue == [id |-> "", key |-> "", issue_type |-> None, parent |-> None,
            assignee |-> None, status |-> None, summary |-> None,
            timetracking |-> None]

EffectiveAssignee(issue) == UnwrapOr(issue.assignee, "Unassigned")

IsSubtask(issue) ==
    IF issue.issue_type = None THEN FALSE ELSE issue.issue_type[1].subtask

(***************************************************************************)
(* Client::subtasks: the partitioner.                                      *)
(***************************************************************************)
AssigneeDiffers(issue, assignee) ==
    assignee # None /\ EffectiveAssignee(issue) # assignee[1]

IssueKeyDiffersDropParent(issue, parent, issue_key) ==
    issue_key # None /\ issue.key # issue_key[1]

IssueKeyDiffers(issue, parent, issue_key) ==
    issue_key # None /\ issue.key # issue_key[1] /\ parent # issue_key[1]

PushSubtaskFront(map, parent, issue) ==
    IF parent \in DOMAIN map
    THEN [map EXCEPT ![parent] = <<issue>> \o @]
    ELSE MapInsert(map, parent, <<issue>>)

PushSubtask(map, parent, issue) ==
    IF parent \in DOMAIN map
    THEN [map EXCEPT ![parent] = Append(@, issue)]
    ELSE MapInsert(map, parent, <<issue>>)

\* The step leaving an empty group behind for a subtask whose assignee
\* differs.
SubtasksStepEmptyGroup(acc, issue, assignee, issue_key) ==
    IF IsSubtask(issue)
    THEN IF issue.parent # None
         THEN IF AssigneeDiffers(issue, assignee)
              THEN [acc EXCEPT !.subtasks =
                       IF issue.parent[1] \in DOMAIN @ THEN @
                       ELSE MapInsert(@, issue.parent[1], <<>>)]
              ELSE IF IssueKeyDiffers(issue, issue.parent[1], issue_key)
                   THEN acc
                   ELSE [acc EXCEPT !.subtasks =
                            PushSubtask(@, issue.parent[1], issue)]
         ELSE acc
    ELSE [acc EXCEPT !.tasks = Append(@, issue)]

SubtasksStepKeepOrphan(acc, issue, assignee, issue_key) ==
    IF IsSubtask(issue)
    THEN IF issue.parent # None
         THEN IF AssigneeDiffers(issue, assignee)
              THEN acc
              ELSE IF IssueKeyDiffers(issue, issue.parent[1], issue_key)
                   THEN acc
                   ELSE [acc EXCEPT !.subtasks =
                            PushSubtask(@, issue.parent[1], issue)]
         ELSE [acc EXCEPT !.tasks = Append(@, issue)]
    ELSE [acc EXCEPT !.tasks = Append(@, issue)]

SubtasksStep(acc, issue, assignee, issue_key) ==
    IF IsSubtask(issue)
    THEN IF issue.parent # None
         THEN IF AssigneeDiffers(issue, assignee)
              THEN acc
              ELSE IF IssueKeyDiffers(issue, issue.parent[1], issue_key)
                   THEN acc
                   ELSE [acc EXCEPT !.subtasks =
                            PushSubtask(@, issue.parent[1], issue)]
         ELSE acc
    ELSE [acc EXCEPT !.tasks = Append(@, issue)]

RECURSIVE SubtasksLoop(_, _, _, _)
SubtasksLoop(acc, input, assignee, issue_key) ==
    IF input = <<>>
    THEN acc
    ELSE SubtasksLoop(SubtasksStep(acc, Head(input), assignee, issue_key),
                      Tail(input), assignee, issue_key)

Subtasks(input, assignee, issue_key) ==
    SubtasksLoop([tasks |-> <<>>, subtasks |-> EmptyMap],
                 input, assignee, issue_key)

(***************************************************************************)
(* The state before anything ran.                                          *)
(***************************************************************************)
NoOptions ==
    [organization |-> None, user |-> None, token |-> None,
     board |-> None, sprint |-> None, assignee |-> None, issue |-> None,
     all |-> FALSE, active |-> FALSE, future |-> FALSE,
     no_subtasks |-> FALSE, planning |-> FALSE, update |-> FALSE]

NoCall == [fn |-> "none"]

Blank ==
    /\ requests = <<>>
    /\ board_id = None
    /\ edited = <<>>
    /\ tasks = <<>>
    /\ subtasks = EmptyMap
    /\ users = EmptyMap
    /\ idx = 0
    /\ estimate = 0
    /\ remaining = 0
    /\ table = None
    /\ err = None

(***************************************************************************)
(* SpecPartition: Client::subtasks applied to every input of the bounded   *)
(* sets below, under every combination of the two filters.                 *)
(***************************************************************************)
AssigneeNames == {"Alice"}

AssigneeFilters == {None, Some("Alice"), Some("Unassigned"), Some("Bob")}

IssueKeyFilters == {None, Some(Key(1)), Some(Key(2)), Some(Key(3))}

ParentKeys == {Key(1), Key(2)}

\* The issue type and parent of an input issue: the type may be absent, and
\* a parent may be present on an issue that is not typed as a subtask.
PartitionKinds ==
    {<<None, None>>, <<Some(Story), None>>, <<Some(Story), Some(Key(1))>>,
     <<Some(SubTask), None>>}
    \cup {<<Some(SubTask), Some(k)>> : k \in ParentKeys}

PartitionShapes ==
    {[kind |-> k, assignee |-> a] :
        k \in PartitionKinds, a \in {None} \cup {Some(n) : n \in AssigneeNames}}

PartitionIssue(n, shape) ==
    [NoIssue EXCEPT !.id = "id" \o ToString(n), !.key = Key(n),
                    !.issue_type = shape.kind[1], !.parent = shape.kind[2],
                    !.assignee = shape.assignee]

InitPartition ==
    /\ Blank
    /\ pc = "subtasks"
    /\ cmd = "none"
    /\ width = None
    /\ call = NoCall
    /\ \E n \in 0..MaxIssues :
         \E shapes \in [1..n -> PartitionShapes] :
            issues = [p \in 1..n |-> PartitionIssue(p, shapes[p])]
    /\ \E a \in AssigneeFilters, k \in IssueKeyFilters :
         options = [NoOptions EXCEPT !.assignee = a, !.issue = k]

Partition ==
    /\ pc = "subtasks"
    /\ LET r == Subtasks(issues, options.assignee, options.issue) IN
         /\ tasks' = r.tasks
         /\ subtasks' = r.subtasks
    /\ pc' = "partitioned"
    /\ UNCHANGED <<cmd, options, width, requests, edited, board_id, issues,
                   users, idx, estimate, remaining, table, err, call>>

NextPartition == Partition

SpecPartition == InitPartition /\ [][NextPartition]_vars

\* Where issue s sits: the positions of s in the group of map key k.
Positions(group, s) == {j \in 1..Len(group) : group[j] = s}

InGroup(s, k) == k \in DOMAIN subtasks /\ Positions(subtasks[k], s) # {}

InputIssues == {issues[p] : p \in 1..Len(issues)}

\* Every map key the input could give rise to.
CandidateKeys ==
    DOMAIN subtasks \cup {s.parent[1] : s \in {x \in InputIssues : x.parent # None}}

PassesAssignee(s) ==
    options.assignee = None \/ EffectiveAssignee(s) = options.assignee[1]

PassesIssueKey(s, k) ==
    options.issue = None \/ s.key = options.issue[1] \/ k = options.issue[1]

(* C5: an issue typed as a subtask that has no parent key is in no group   *)
(* of the subtask map, creates no map key, and is not in the top-level     *)
(* list, whatever the two filters are.                                     *)
C5_OrphanSubtaskDropped ==
    pc = "partitioned" =>
        \A s \in InputIssues :
            (IsSubtask(s) /\ s.parent = None) =>
                /\ \A k \in DOMAIN subtasks : Positions(subtasks[k], s) = {}
                /\ \A p \in 1..Len(tasks) : tasks[p] # s
                /\ DOMAIN subtasks \subseteq
                      {x.parent[1] : x \in {y \in InputIssues :
                                               IsSubtask(y) /\ y.parent # None}}

C5_Witness ==
    /\ pc = "partitioned"
    /\ \E s \in InputIssues : IsSubtask(s) /\ s.parent = None
    /\ tasks # <<>>
    /\ DOMAIN subtasks # {}

(* C6: after partitioning, issue s is in the group subtasks[k] iff s is a  *)
(* subtask, its parent key is k, its effective assignee equals the         *)
(* assignee filter when one is set, and its own key or k equals the        *)
(* issue-key filter when one is set; every member of a group is an input   *)
(* issue, and each input issue is in at most one group, at most once.      *)
C6_GroupMembership ==
    pc = "partitioned" =>
        /\ \A k \in CandidateKeys : \A s \in InputIssues :
              InGroup(s, k) <=>
                  /\ IsSubtask(s)
                  /\ s.parent = Some(k)
                  /\ PassesAssignee(s)
                  /\ PassesIssueKey(s, k)
        /\ \A k \in DOMAIN subtasks : \A j \in 1..Len(subtasks[k]) :
              subtasks[k][j] \in InputIssues
        /\ \A s \in InputIssues :
              /\ Cardinality({k \in DOMAIN subtasks : InGroup(s, k)}) <= 1
              /\ \A k \in DOMAIN subtasks :
                    Cardinality(Positions(subtasks[k], s)) <= 1

C6_Witness ==
    /\ pc = "partitioned"
    /\ Cardinality(DOMAIN subtasks) = 2
    /\ options.assignee # None
    /\ \E s \in InputIssues :
          /\ IsSubtask(s) /\ s.parent # None
          /\ ~PassesAssignee(s)

\* The subsequence of the input made of the issues satisfying Keep.
InputWhere(Keep(_)) == SelectSeq(issues, Keep)

(* C7: the top-level list is exactly the non-subtask input issues in input *)
(* order, whatever the filters are, and every group of the subtask map     *)
(* lists its subtasks in the relative order they had in the input.         *)
C7_OrderPreserved ==
    pc = "partitioned" =>
        /\ tasks = InputWhere(LAMBDA s : ~IsSubtask(s))
        /\ \A k \in DOMAIN subtasks :
              subtasks[k] = InputWhere(LAMBDA s : InGroup(s, k))

C7_Witness ==
    /\ pc = "partitioned"
    /\ Len(tasks) = 1
    /\ \E k \in DOMAIN subtasks : Len(subtasks[k]) = 2
    /\ options.assignee # None

(***************************************************************************)
(* Client::new's width and Client::summary.                                *)
(*                                                                         *)
(* An f32 has a 24-bit significand.  The values the program computes are   *)
(* positive and below 2^24, so an f32 is written [m, k], the number        *)
(* m / 2^k with 2^23 <= m <= 2^24, and each operation rounds to nearest,   *)
(* ties to even.                                                           *)
(***************************************************************************)
RoundedQuotient(n, d) ==
    LET q == n \div d
        r == n % d
    IN  IF 2 * r > d \/ (2 * r = d /\ q % 2 = 1) THEN q + 1 ELSE q

RECURSIVE F32Scale(_, _, _)
F32Scale(n, d, k) ==
    IF n >= d * 2^23 THEN k ELSE F32Scale(2 * n, d, k + 1)

\* n / d as an f32, for whole numbers 0 < n < 2^24 * d.
F32Div(n, d) ==
    LET k == F32Scale(n, d, 0)
    IN  [m |-> RoundedQuotient(n * 2^k, d), k |-> k]

RECURSIVE F32Excess(_, _)
F32Excess(p, s) == IF p < 2^(24 + s) THEN s ELSE F32Excess(p, s + 1)

\* x * n as an f32, for a whole number n below 128.
F32Mul(x, n) ==
    LET p == x.m * n
        s == F32Excess(p, 0)
    IN  IF s = 0
        THEN [m |-> p, k |-> x.k]
        ELSE [m |-> RoundedQuotient(p, 2^s) * 2^s, k |-> x.k]

\* `x as usize`: the whole part.
F32ToUsize(x) == x.m \div 2^(x.k)

ClientWidth(dimensions) ==
    IF dimensions = None
    THEN None
    ELSE IF dimensions[1] < 188 THEN Some(80) ELSE Some(dimensions[1] - 108)

\* str::len counts UTF-8 bytes.  The character written E stands for a
\* two-byte character (U+00E9); every other character of the model is ASCII.
Utf8Len(c) == IF c = "E" THEN 2 ELSE 1

ByteLen(s) ==
    Len(s) + Cardinality({p \in 1..Len(s) : Utf8Len(SubSeq(s, p, p)) = 2})

\* format!("{:.width$}", input): at most `precision` characters of input.
FormatPrecision(input, precision) ==
    IF Len(input) <= precision THEN input ELSE SubSeq(input, 1, precision)

Summary(self_width, part, input) ==
    IF self_width = None
    THEN input
    ELSE LET output == FormatPrecision(input,
                           F32ToUsize(F32Mul(F32Div(self_width[1], 100), part)))
         IN  IF ByteLen(output) + 3 < ByteLen(input)
             THEN output \o "..."
             ELSE output

(***************************************************************************)
(* SpecSummary: Client::summary applied, for every width Client::new can   *)
(* store, to texts of every length up to MaxLen.                           *)
(***************************************************************************)
TermDimensions == {None, Some(80), Some(188), Some(213)}

Parts == {40, 60}

Alphabets == {"abcdefghij", "abEcdEfg"}

RECURSIVE Text(_, _)
Text(n, alphabet) ==
    IF n = 0 THEN ""
    ELSE Text(n - 1, alphabet)
         \o SubSeq(alphabet, ((n - 1) % Len(alphabet)) + 1,
                             ((n - 1) % Len(alphabet)) + 1)

InitSummary ==
    /\ Blank
    /\ pc = "summary"
    /\ cmd = "none"
    /\ options = NoOptions
    /\ issues = <<>>
    /\ \E d \in TermDimensions : width = ClientWidth(d)
    /\ \E part \in Parts, n \in 0..MaxLen, alphabet \in Alphabets :
         call = [fn |-> "summary", part |-> part,
                 input |-> Text(n, alphabet), output |-> None]

Summarize ==
    /\ pc = "summary"
    /\ call' = [call EXCEPT !.output = Some(Summary(width, call.part, call.input))]
    /\ pc' = "summarized"
    /\ UNCHANGED <<cmd, options, width, requests, edited, board_id, issues,
                   tasks, subtasks, users, idx, estimate, remaining, table, err>>

NextSummary == Summarize

SpecSummary == InitSummary /\ [][NextSummary]_vars

(* C1: with effective column width w = floor(part/100 * width): without a  *)
(* width the text is returned unchanged; a text of at most w characters is *)
(* returned unchanged; every text longer than w characters is returned as  *)
(* its first w characters followed by "...".                               *)
C1_Truncation ==
    pc = "summarized" =>
        IF width = None
        THEN call.output = Some(call.input)
        ELSE LET w == (call.part * width[1]) \div 100 IN
             IF Len(call.input) <= w
             THEN call.output = Some(call.input)
             ELSE /\ call.output = Some(SubSeq(call.input, 1, w) \o "...")
                  /\ Len(call.output[1]) = w + 3

(***************************************************************************)
(* Users: the per-assignee accumulator.  The totals are f64 sums of whole  *)
(* numbers far below 2^53, which are exact.                                *)
(***************************************************************************)
NewUser == [issues |-> 0, estimate |-> 0, remaining |-> 0, actual |-> 0]

\* self.0.entry(assignee).or_insert(User::new())
Entry(self, assignee) ==
    IF assignee \in DOMAIN self THEN self[assignee] ELSE NewUser

OriginalEstimateSecondsCountsAbsent(self, assignee, value) ==
    [users |-> MapInsert(self, assignee,
                  [Entry(self, assignee) EXCEPT
                      !.issues = @ + 1, !.estimate = @ + UnwrapOr(value, 0)]),
     ret |-> value]

OriginalEstimateSeconds(self, assignee, value) ==
    IF value # None
    THEN [users |-> MapInsert(self, assignee,
                       [Entry(self, assignee) EXCEPT
                           !.issues = @ + 1, !.estimate = @ + value[1]]),
          ret |-> value]
    ELSE [users |-> self, ret |-> value]

RemainingEstimateSeconds(self, assignee, value) ==
    IF value # None
    THEN [users |-> MapInsert(self, assignee,
                       [Entry(self, assignee) EXCEPT !.remaining = @ + value[1]]),
          ret |-> value]
    ELSE [users |-> self, ret |-> value]

TimeSpentSeconds(self, assignee, value) ==
    IF value # None
    THEN [users |-> MapInsert(self, assignee,
                       [Entry(self, assignee) EXCEPT !.actual = @ + value[1]]),
          ret |-> value]
    ELSE [users |-> self, ret |-> value]

Fields ==
    {"original_estimate_seconds", "remaining_estimate_seconds",
     "time_spent_seconds"}

\* $users.$field(assignee, value)
RecordSeconds(self, field, assignee, value) ==
    CASE field = "original_estimate_seconds" ->
            OriginalEstimateSeconds(self, assignee, value)
      [] field = "remaining_estimate_seconds" ->
            RemainingEstimateSeconds(self, assignee, value)
      [] field = "time_spent_seconds" ->
            TimeSpentSeconds(self, assignee, value)

(***************************************************************************)
(* SpecUsers: up to MaxCalls calls of the three recording methods on one   *)
(* accumulator.                                                            *)
(***************************************************************************)
UserNames == {"Alice", "Bob"}

SecondsValues == {None, Some(90), Some(7200)}

InitUsers ==
    /\ Blank
    /\ pc = "users"
    /\ cmd = "none"
    /\ options = NoOptions
    /\ width = None
    /\ issues = <<>>
    /\ call = NoCall

Record(field) ==
    /\ pc = "users"
    /\ idx < MaxCalls
    /\ \E assignee \in UserNames, value \in SecondsValues :
         LET r == RecordSeconds(users, field, assignee, value) IN
           /\ users' = r.users
           /\ call' = [fn |-> field, assignee |-> assignee, value |-> value,
                       ret |-> r.ret]
    /\ idx' = idx + 1
    /\ UNCHANGED <<pc, cmd, options, width, requests, edited, board_id, issues,
                   tasks, subtasks, estimate, remaining, table, err>>

RecordOriginalEstimate == Record("original_estimate_seconds")

RecordRemainingEstimate == Record("remaining_estimate_seconds")

RecordTimeSpent == Record("time_spent_seconds")

NextUsers ==
    \/ RecordOriginalEstimate
    \/ RecordRemainingEstimate
    \/ RecordTimeSpent

SpecUsers == InitUsers /\ [][NextUsers]_vars

\* A step of SpecUsers that is a call of one of the recording methods.
IsRecordStep == pc = "users" /\ idx' = idx + 1 /\ call'.fn \in Fields

(* C4: recording an absent value, for any of the three fields, creates no  *)
(* entry and changes no entry; recording a present value v for the         *)
(* estimate field adds 1 to the named assignee's issue_count and v to its  *)
(* estimate total (the entry starting at zero if new) and changes neither  *)
(* its remaining and spent totals nor any other entry; every call returns  *)
(* the value it was given.                                                 *)
C4_RecordFrame ==
    [][IsRecordStep =>
        /\ call'.ret = call'.value
        /\ call'.value = None => users' = users
        /\ (call'.value # None /\ call'.fn = "original_estimate_seconds") =>
             LET a == call'.assignee
                 old == IF a \in DOMAIN users THEN users[a]
                        ELSE [issues |-> 0, estimate |-> 0,
                              remaining |-> 0, actual |-> 0]
             IN  /\ DOMAIN users' = DOMAIN users \cup {a}
                 /\ users'[a].issues = old.issues + 1
                 /\ users'[a].estimate = old.estimate + call'.value[1]
                 /\ users'[a].remaining = old.remaining
                 /\ users'[a].actual = old.actual
                 /\ \A b \in DOMAIN users \ {a} : users'[b] = users[b]
    ]_vars

C4_Witness ==
    /\ pc = "users"
    /\ call.fn = "original_estimate_seconds"
    /\ call.value = Some(90)
    /\ call.assignee = "Alice"
    /\ DOMAIN users = {"Alice", "Bob"}
    /\ users["Alice"].issues = 2
    /\ users["Alice"].estimate = 7290

(***************************************************************************)
(* Errors, requests to the remote service, print_table.                    *)
(***************************************************************************)
Config(name) == [kind |-> "Config", arg |-> name]

JiraError == [kind |-> "Jira", arg |-> "remote"]

Request(op, arg, ok) == [op |-> op, arg |-> arg, ok |-> ok]

PrintTable(rows, msg) ==
    [rows |-> rows, printed |-> IF rows = <<>> THEN msg ELSE "table"]

RECURSIVE Join(_, _)
Join(strings, sep) ==
    IF strings = <<>> THEN ""
    ELSE IF Len(strings) = 1 THEN strings[1]
    ELSE strings[1] \o sep \o Join(Tail(strings), sep)

Fail(e) == pc' = "error" /\ err' = Some(e)

(***************************************************************************)
(* The board of issues and report (the same code in both).                 *)
(***************************************************************************)
OriginBoardIds == {None, Some(7)}

OriginBoardMissingAsSprint == Config("sprint")

OriginBoardMissing == Config("board")

BoardId(next) ==
    IF options.board # None
    THEN /\ board_id' = options.board
         /\ pc' = next
         /\ UNCHANGED <<requests, err>>
    ELSE IF options.sprint = None
         THEN /\ Fail(Config("sprint"))
              /\ UNCHANGED <<requests, board_id>>
         ELSE \E ok \in BOOLEAN, origin \in OriginBoardIds :
                /\ requests' = Append(requests,
                                  Request("sprints.get", options.sprint[1], ok))
                /\ IF ~ok
                   THEN Fail(JiraError) /\ UNCHANGED board_id
                   ELSE IF origin = None
                        THEN Fail(OriginBoardMissing) /\ UNCHANGED board_id
                        ELSE /\ board_id' = Some(ToString(origin[1]))
                             /\ pc' = next
                             /\ UNCHANGED err

GetBoard(next) ==
    \E ok \in BOOLEAN :
        /\ requests' = Append(requests, Request("boards.get", board_id[1], ok))
        /\ IF ok THEN pc' = next /\ UNCHANGED err ELSE Fail(JiraError)

(***************************************************************************)
(* The issues the remote service returns.                                  *)
(***************************************************************************)
TTFull ==
    [original_estimate |-> Some("1m"), remaining_estimate |-> Some("0m"),
     time_spent |-> Some("0m"), original_estimate_seconds |-> Some(90),
     remaining_estimate_seconds |-> Some(45), time_spent_seconds |-> Some(30)]

TTPartial ==
    [original_estimate |-> None, remaining_estimate |-> Some("2h"),
     time_spent |-> None, original_estimate_seconds |-> None,
     remaining_estimate_seconds |-> Some(7200), time_spent_seconds |-> None]

Kinds ==
    {<<Some(Story), None>>, <<Some(SubTask), None>>,
     <<Some(SubTask), Some(Key(1))>>}

StatusNames == <<"To Do", "In Progress", "Done", "In Review">>

\* The issues command fetches every field; the fields of an issue with
\* details depend on its position, so that issues differ in every column.
ViewShapes ==
    {[kind |-> k, assignee |-> a, details |-> d] :
        k \in Kinds, a \in {None} \cup {Some(n) : n \in AssigneeNames},
        d \in BOOLEAN}

ViewIssue(n, shape) ==
    [id |-> "id" \o ToString(n), key |-> Key(n),
     issue_type |-> shape.kind[1], parent |-> shape.kind[2],
     assignee |-> shape.assignee,
     status |-> IF shape.details
                THEN Some(StatusNames[((n - 1) % Len(StatusNames)) + 1])
                ELSE None,
     summary |-> IF shape.details
                 THEN Some("Rework the planning report of the sprint for "
                           \o Key(n) \o " and its subtasks")
                 ELSE None,
     timetracking |-> IF shape.details
                      THEN Some(IF n % 2 = 1 THEN TTFull ELSE TTPartial)
                      ELSE None]

(***************************************************************************)
(* Client::issues.                                                         *)
(***************************************************************************)
IssuesJql(opts) ==
    LET base == CASE opts.issue = None /\ ~opts.all /\ ~opts.no_subtasks ->
                        <<"status!=Done">>
                  [] opts.issue = None /\ opts.all /\ opts.no_subtasks ->
                        <<"issuetype!=Sub-Task">>
                  [] opts.issue = None /\ ~opts.all /\ opts.no_subtasks ->
                        <<"status!=Done", "issuetype!=Sub-Task">>
                  [] OTHER -> <<>>
        filter == IF opts.sprint # None
                  THEN Append(base, "sprint=" \o opts.sprint[1])
                  ELSE base
    IN  Join(filter, " AND ") \o " ORDER BY issuekey"

SkipByAssigneeOwnOnly(issue, map, assignee) ==
    assignee # None /\ EffectiveAssignee(issue) # assignee[1]

SkipByAssignee(issue, map, assignee) ==
    /\ assignee # None
    /\ EffectiveAssignee(issue) # assignee[1]
    /\ ~(/\ issue.key \in DOMAIN map
         /\ \E j \in 1..Len(map[issue.key]) :
               EffectiveAssignee(map[issue.key][j]) = assignee[1])

SkipByIssueKey(issue, map, issue_key) ==
    /\ issue_key # None
    /\ issue.key # issue_key[1]
    /\ ~(/\ issue.key \in DOMAIN map
         /\ \E j \in 1..Len(map[issue.key]) :
               map[issue.key][j].key = issue_key[1])

Columns ==
    {"status", "assignee", "original_estimate", "remaining_estimate",
     "time_spent"}

\* The closure flatten! is given for a column.
Extract(column, issue) ==
    CASE column = "status" -> UnwrapOr(issue.status, "n/a")
      [] column = "assignee" -> EffectiveAssignee(issue)
      [] OTHER -> IF issue.timetracking = None
                  THEN "n/a"
                  ELSE UnwrapOr(issue.timetracking[1][column], "n/a")

\* flatten!(subtasks, issue, filter) with the parent's own line kept first.
FlattenDisplayKeepParent(map, issue, column) ==
    IF issue.key \in DOMAIN map
    THEN Join(<<Extract(column, issue)>> \o
              [j \in 1..Len(map[issue.key]) |->
                  Extract(column, map[issue.key][j])], "\n")
    ELSE Extract(column, issue)

\* flatten!(subtasks, issue, filter)
FlattenDisplay(map, issue, column) ==
    IF issue.key \in DOMAIN map
    THEN Join([j \in 1..Len(map[issue.key]) |->
                  Extract(column, map[issue.key][j])], "\n")
    ELSE Extract(column, issue)

SubtasksCell(map, issue, self_width) ==
    IF issue.key \in DOMAIN map
    THEN Join([j \in 1..Len(map[issue.key]) |->
                  Summary(self_width, 60,
                          map[issue.key][j].key \o ": "
                          \o UnwrapOr(map[issue.key][j].summary, "n/a"))], "\n")
    ELSE "-"

IssueRow(issue, map, self_width) ==
    [key |-> issue.key,
     type |-> IF issue.issue_type = None THEN "Unknown"
              ELSE issue.issue_type[1].name,
     summary |-> Summary(self_width, 40, UnwrapOr(issue.summary, "n/a")),
     subtasks |-> SubtasksCell(map, issue, self_width),
     status |-> FlattenDisplay(map, issue, "status"),
     assignee |-> FlattenDisplay(map, issue, "assignee"),
     original_estimate |-> FlattenDisplay(map, issue, "original_estimate"),
     remaining_estimate |-> FlattenDisplay(map, issue, "remaining_estimate"),
     time_spent |-> FlattenDisplay(map, issue, "time_spent")]

RECURSIVE IssueRows(_, _, _, _, _)
IssueRows(list, map, assignee, issue_key, self_width) ==
    IF list = <<>> THEN <<>>
    ELSE LET rest == IssueRows(Tail(list), map, assignee, issue_key, self_width)
         IN  IF SkipByAssignee(Head(list), map, assignee)
             THEN rest
             ELSE IF SkipByIssueKey(Head(list), map, issue_key)
                  THEN rest
                  ELSE <<IssueRow(Head(list), map, self_width)>> \o rest

IssuesBoardId ==
    /\ pc = "issues"
    /\ BoardId("issues_board")
    /\ UNCHANGED <<cmd, options, width, edited, issues, tasks, subtasks, users,
                   idx, estimate, remaining, table, call>>

IssuesBoard ==
    /\ pc = "issues_board"
    /\ GetBoard("issues_search")
    /\ UNCHANGED <<cmd, options, width, edited, board_id, issues, tasks,
                   subtasks, users, idx, estimate, remaining, table, call>>

IssuesList(max) ==
    /\ pc = "issues_search"
    /\ \E ok \in BOOLEAN :
         /\ requests' = Append(requests,
                           Request("issues.iter", IssuesJql(options), ok))
         /\ IF ~ok
            THEN Fail(JiraError) /\ UNCHANGED <<issues, tasks, subtasks, table>>
            ELSE \E n \in 0..max : \E shapes \in [1..n -> ViewShapes] :
                   LET list == [p \in 1..n |-> ViewIssue(p, shapes[p])]
                       r == Subtasks(list, options.assignee, options.issue)
                   IN
                     /\ issues' = list
                     /\ tasks' = r.tasks
                     /\ subtasks' = r.subtasks
                     /\ table' = Some(PrintTable(
                            IssueRows(r.tasks, r.subtasks, options.assignee,
                                      options.issue, width),
                            "No issues were found to match your search"))
                     /\ pc' = "done"
                     /\ UNCHANGED err
    /\ UNCHANGED <<cmd, options, width, edited, board_id, users, idx, estimate,
                   remaining, call>>

(***************************************************************************)
(* SpecIssues: Client::issues on a constructed client, with the board      *)
(* given and the filters main's argument group "filter" admits: at most    *)
(* one of assignee and issue.                                              *)
(***************************************************************************)
Credentials == [organization |-> Some("acme"), user |-> Some("me"),
                token |-> Some("secret")]

WithCredentials(opts, c) ==
    [opts EXCEPT !.organization = c.organization, !.user = c.user,
                 !.token = c.token]

ViewFilters ==
    {<<a, None>> : a \in AssigneeFilters} \cup {<<None, k>> : k \in IssueKeyFilters}

InitIssues ==
    /\ Blank
    /\ pc = "issues"
    /\ cmd = "issues"
    /\ issues = <<>>
    /\ call = NoCall
    /\ \E d \in {None, Some(213)} : width = ClientWidth(d)
    /\ \E f \in ViewFilters :
         options = [WithCredentials(NoOptions, Credentials) EXCEPT
                       !.board = Some("7"), !.assignee = f[1], !.issue = f[2]]

IssuesListFull == IssuesList(MaxIssues)

NextIssues ==
    \/ IssuesBoardId
    \/ IssuesBoard
    \/ IssuesListFull

SpecIssues == InitIssues /\ [][NextIssues]_vars

Rows == table[1].rows

HasRow(k) == \E j \in 1..Len(Rows) : Rows[j].key = k

TopLevel == {t \in InputIssues : ~IsSubtask(t)}

(* C2: in the issues view with an assignee filter and no issue-key filter, *)
(* a top-level issue has a table row iff its own effective assignee equals *)
(* the filter or some subtask of the fetched input whose parent key is the *)
(* issue's key has an effective assignee equal to the filter.              *)
C2_AssigneeFilterRows ==
    (pc = "done" /\ options.assignee # None /\ options.issue = None) =>
        /\ \A t \in TopLevel :
              HasRow(t.key) <=>
                  \/ EffectiveAssignee(t) = options.assignee[1]
                  \/ \E s \in InputIssues :
                        /\ IsSubtask(s)
                        /\ s.parent = Some(t.key)
                        /\ EffectiveAssignee(s) = options.assignee[1]
        /\ \A j \in 1..Len(Rows) : \E t \in TopLevel : t.key = Rows[j].key

C2_Witness ==
    /\ pc = "done"
    /\ options.assignee # None /\ options.issue = None
    /\ \E t \in TopLevel :
          /\ HasRow(t.key)
          /\ EffectiveAssignee(t) # options.assignee[1]
    /\ \E t \in TopLevel : ~HasRow(t.key)

\* The extractor outputs of the first n subtasks of a group, one per line.
RECURSIVE Lines(_, _, _)
Lines(column, group, n) ==
    IF n = 1 THEN Extract(column, group[1])
    ELSE Lines(column, group, n - 1) \o "\n" \o Extract(column, group[n])

(* C8: a row's column is the extractor applied to the issue itself when    *)
(* the issue's key has no group in the subtask map, and otherwise the      *)
(* extractor outputs of the group's N subtasks, in group order, joined by  *)
(* newline, without the issue's own field.                                 *)
C8_DisplayRollup ==
    pc = "done" =>
        \A j \in 1..Len(Rows) : \A t \in TopLevel :
            t.key = Rows[j].key =>
                \A c \in Columns :
                    IF t.key \in DOMAIN subtasks
                    THEN Rows[j][c] =
                           Lines(c, subtasks[t.key], Len(subtasks[t.key]))
                    ELSE Rows[j][c] = Extract(c, t)

C8_Witness ==
    /\ pc = "done"
    /\ \E j \in 1..Len(Rows) : \E t \in TopLevel :
          /\ t.key = Rows[j].key
          /\ t.key \in DOMAIN subtasks
          /\ Len(subtasks[t.key]) = 2
          /\ t.status # None
          /\ subtasks[t.key][1].status # None
          /\ subtasks[t.key][2].status = None
          /\ Rows[j].status = "In Progress\nn/a"

(***************************************************************************)
(* flatten! with a Users accumulator, and the Users iterator.              *)
(***************************************************************************)
\* The macro's closure for one subtask, or for the issue itself.
RecordIssue(self, issue, field) ==
    IF issue.timetracking = None
    THEN [users |-> self, ret |-> 0]
    ELSE LET r == RecordSeconds(self, field, EffectiveAssignee(issue),
                                issue.timetracking[1][field])
         IN  [users |-> r.users, ret |-> UnwrapOr(r.ret, 0)]

\* v.iter().map(..).sum()
RECURSIVE SumGroup(_, _, _, _)
SumGroup(self, group, field, total) ==
    IF group = <<>>
    THEN [users |-> self, ret |-> total]
    ELSE LET r == RecordIssue(self, Head(group), field)
         IN  SumGroup(r.users, Tail(group), field, total + r.ret)

\* flatten!(subtasks, issue, users, field) recording the parent as well.
FlattenUsersWithParent(map, issue, self, field) ==
    IF issue.key \in DOMAIN map
    THEN LET own == RecordIssue(self, issue, field)
         IN  SumGroup(own.users, map[issue.key], field, own.ret)
    ELSE RecordIssue(self, issue, field)

\* flatten!(subtasks, issue, users, field)
FlattenUsers(map, issue, self, field) ==
    IF issue.key \in DOMAIN map
    THEN SumGroup(self, map[issue.key], field, 0)
    ELSE RecordIssue(self, issue, field)

\* The order of String keys in the BTreeMap, for the names of the model.
NameOrder == <<"Alice", "Bob", "Unassigned">>

NameRank(name) == CHOOSE r \in 1..Len(NameOrder) : NameOrder[r] = name

\* self.0.keys().next() taken from the other end of the map.
LastKey(self) ==
    CHOOSE k \in DOMAIN self :
        \A other \in DOMAIN self : NameRank(k) >= NameRank(other)

FirstKey(self) ==
    CHOOSE k \in DOMAIN self :
        \A other \in DOMAIN self : NameRank(k) <= NameRank(other)

\* Iterator::next for Users
UsersNext(self) ==
    IF DOMAIN self = {}
    THEN [item |-> None, users |-> self]
    ELSE [item |-> Some(<<FirstKey(self), self[FirstKey(self)]>>),
          users |-> [k \in DOMAIN self \ {FirstKey(self)} |-> self[k]]]

(***************************************************************************)
(* Client::report.                                                         *)
(***************************************************************************)
ReportJql(opts) ==
    LET base == IF opts.planning THEN <<"status!=Done">> ELSE <<>>
        filter == IF opts.sprint # None
                  THEN Append(base, "sprint=" \o opts.sprint[1])
                  ELSE base
    IN  Join(filter, " AND ") \o " ORDER BY assignee"

\* The search of the report is narrowed by sprint and status, so it can
\* return a subtask whose parent it does not return.
ReportKinds == Kinds \cup {<<Some(SubTask), Some(Key(0))>>}

\* The report command fetches no status and no summary.
ReportShapes ==
    {[kind |-> k, assignee |-> a, timetracking |-> t] :
        k \in ReportKinds, a \in {None} \cup {Some(n) : n \in AssigneeNames},
        t \in {None, Some(TTFull), Some(TTPartial)}}

ReportIssue(n, shape) ==
    [NoIssue EXCEPT !.id = "id" \o ToString(n), !.key = Key(n),
                    !.issue_type = shape.kind[1], !.parent = shape.kind[2],
                    !.assignee = shape.assignee,
                    !.timetracking = shape.timetracking]

\* User::original_estimate_days and the like, formatted with "{:.1}d": the
\* number of tenths of a day, rounded half to even.  The ties of the model's
\* values are quarters of a day, which f64 holds exactly.
SecondsPerDay == 60 * 60 * 8

Days(seconds) ==
    LET tenth == SecondsPerDay \div 10
        q == seconds \div tenth
        r == seconds % tenth
    IN  IF 2 * r > tenth \/ (2 * r = tenth /\ q % 2 = 1) THEN q + 1 ELSE q

ReportRow(assignee, details, planning) ==
    IF planning
    THEN <<assignee, details.issues, Days(details.estimate)>>
    ELSE <<assignee, details.issues, Days(details.estimate),
           Days(details.remaining), Days(details.actual)>>

\* for (assignee, details) in users
RECURSIVE ReportRows(_, _)
ReportRows(self, planning) ==
    LET n == UsersNext(self)
    IN  IF n.item = None
        THEN <<>>
        ELSE <<ReportRow(n.item[1][1], n.item[1][2], planning)>>
             \o ReportRows(n.users, planning)

\* TimeTracking with the minutes rounded to the nearest instead of cut.
TimeTrackingRounded(original, remain) ==
    [original_estimate |-> (original + 30) \div 60,
     remaining_estimate |-> (remain + 30) \div 60]

TimeTracking(original, remain) ==
    [original_estimate |-> original \div 60,
     remaining_estimate |-> remain \div 60]

\* self.jira.issues().edit(..)? with the error dropped.
EditResultIgnored(ok) == [pc |-> "report_spent", err |-> None]

\* self.jira.issues().edit(..)?
EditResult(ok) ==
    IF ok
    THEN [pc |-> "report_spent", err |-> None]
    ELSE [pc |-> "error", err |-> Some(JiraError)]

ReportBoardId ==
    /\ pc = "report"
    /\ BoardId("report_board")
    /\ UNCHANGED <<cmd, options, width, edited, issues, tasks, subtasks, users,
                   idx, estimate, remaining, table, call>>

ReportBoard ==
    /\ pc = "report_board"
    /\ GetBoard("report_search")
    /\ UNCHANGED <<cmd, options, width, edited, board_id, issues, tasks,
                   subtasks, users, idx, estimate, remaining, table, call>>

ReportList ==
    /\ pc = "report_search"
    /\ \E ok \in BOOLEAN :
         /\ requests' = Append(requests,
                           Request("issues.iter", ReportJql(options), ok))
         /\ IF ~ok
            THEN Fail(JiraError) /\ UNCHANGED <<issues, tasks, subtasks, idx>>
            ELSE \E n \in 0..MaxFetched : \E shapes \in [1..n -> ReportShapes] :
                   LET list == [p \in 1..n |-> ReportIssue(p, shapes[p])]
                       r == Subtasks(list, None, None)
                   IN  /\ issues' = list
                       /\ tasks' = r.tasks
                       /\ subtasks' = r.subtasks
                       /\ idx' = 1
                       /\ pc' = IF r.tasks = <<>> THEN "report_table"
                                ELSE "report_estimate"
                       /\ UNCHANGED err
    /\ users' = EmptyMap
    /\ UNCHANGED <<cmd, options, width, edited, board_id, estimate, remaining,
                   table, call>>

ReportEstimate ==
    /\ pc = "report_estimate"
    /\ LET r == FlattenUsers(subtasks, tasks[idx], users,
                             "original_estimate_seconds")
       IN  users' = r.users /\ estimate' = r.ret
    /\ pc' = "report_remaining"
    /\ UNCHANGED <<cmd, options, width, requests, edited, board_id, issues,
                   tasks, subtasks, idx, remaining, table, err, call>>

ReportRemaining ==
    /\ pc = "report_remaining"
    /\ LET r == FlattenUsers(subtasks, tasks[idx], users,
                             "remaining_estimate_seconds")
       IN  users' = r.users /\ remaining' = r.ret
    /\ pc' = IF options.update THEN "report_edit" ELSE "report_spent"
    /\ UNCHANGED <<cmd, options, width, requests, edited, board_id, issues,
                   tasks, subtasks, idx, estimate, table, err, call>>

ReportEdit ==
    /\ pc = "report_edit"
    /\ \E ok \in BOOLEAN :
         LET edit == [id |-> tasks[idx].id,
                      timetracking |-> TimeTracking(estimate, remaining)]
         IN  /\ requests' = Append(requests, Request("issues.edit", edit, ok))
             /\ edited' = IF ok THEN Append(edited, edit) ELSE edited
             /\ pc' = EditResult(ok).pc
             /\ err' = EditResult(ok).err
    /\ UNCHANGED <<cmd, options, width, board_id, issues, tasks, subtasks,
                   users, idx, estimate, remaining, table, call>>

ReportTimeSpent ==
    /\ pc = "report_spent"
    /\ users' = FlattenUsers(subtasks, tasks[idx], users,
                             "time_spent_seconds").users
    /\ idx' = idx + 1
    /\ pc' = IF idx = Len(tasks) THEN "report_table" ELSE "report_estimate"
    /\ UNCHANGED <<cmd, options, width, requests, edited, board_id, issues,
                   tasks, subtasks, estimate, remaining, table, err, call>>

ReportTable ==
    /\ pc = "report_table"
    /\ table' = Some(PrintTable(ReportRows(users, options.planning),
                                "No issues were found to match your search"))
    /\ users' = EmptyMap
    /\ pc' = "done"
    /\ UNCHANGED <<cmd, options, width, requests, edited, board_id, issues,
                   tasks, subtasks, idx, estimate, remaining, err, call>>

(***************************************************************************)
(* Client::new, Client::boards, Client::sprints.                           *)
(***************************************************************************)
New ==
    /\ pc = "main"
    /\ IF options.organization = None
       THEN Fail(Config("organization")) /\ UNCHANGED width
       ELSE IF options.user = None
       THEN Fail(Config("user")) /\ UNCHANGED width
       ELSE IF options.token = None
       THEN Fail(Config("token")) /\ UNCHANGED width
       ELSE \E ok \in BOOLEAN :
              IF ok
              THEN /\ width' = ClientWidth(Some(213))
                   /\ pc' = cmd
                   /\ UNCHANGED err
              ELSE Fail(JiraError) /\ UNCHANGED width
    /\ UNCHANGED <<cmd, options, requests, edited, board_id, issues, tasks,
                   subtasks, users, idx, estimate, remaining, table, call>>

Board(id) == [id |-> id, name |-> "Board " \o ToString(id), type_name |-> "scrum"]

BoardLists == {<<>>, <<Board(1)>>, <<Board(1), Board(2)>>, <<Board(2), Board(1)>>}

Sprint1 == [id |-> 1, name |-> "Sprint 1", state |-> Some("active"),
            start_date |-> Some("2020-01-06T09:00:00+00:00"),
            end_date |-> None]

Sprint2 == [id |-> 2, name |-> "Sprint 2", state |-> None,
            start_date |-> Some("20 January"),
            end_date |-> Some("2020-02-03T17:30:00+01:00")]

SprintLists == {<<>>, <<Sprint1>>, <<Sprint1, Sprint2>>, <<Sprint2, Sprint1>>}

\* DateTime::parse_from_rfc3339(..).format("%F %R") on the dates of the model.
Rfc3339 ==
    ("2020-01-06T09:00:00+00:00" :> "2020-01-06 09:00")
    @@ ("2020-02-03T17:30:00+01:00" :> "2020-02-03 17:30")

ParseDate(date) ==
    IF date = None THEN "n/a"
    ELSE IF date[1] \in DOMAIN Rfc3339 THEN Rfc3339[date[1]] ELSE "n/a"

\* sort_by is stable: x goes before the first element it must precede.
RECURSIVE InsertById(_, _, _)
InsertById(sorted, x, descending) ==
    IF sorted = <<>> THEN <<x>>
    ELSE IF (IF descending THEN x.id > Head(sorted).id
             ELSE x.id < Head(sorted).id)
         THEN <<x>> \o sorted
         ELSE <<Head(sorted)>> \o InsertById(Tail(sorted), x, descending)

RECURSIVE SortById(_, _, _)
SortById(sorted, list, descending) ==
    IF list = <<>> THEN sorted
    ELSE SortById(InsertById(sorted, Head(list), descending), Tail(list),
                  descending)

Boards ==
    /\ pc = "boards"
    /\ \E ok \in BOOLEAN :
         /\ requests' = Append(requests, Request("boards.iter", "", ok))
         /\ IF ~ok
            THEN Fail(JiraError) /\ UNCHANGED table
            ELSE \E list \in BoardLists :
                   /\ table' = Some(PrintTable(
                          [p \in 1..Len(list) |->
                              LET b == SortById(<<>>, list, FALSE)[p]
                              IN  <<b.id, b.name, b.type_name>>],
                          "No boards were found which you have access to"))
                   /\ pc' = "done"
                   /\ UNCHANGED err
    /\ UNCHANGED <<cmd, options, width, edited, board_id, issues, tasks,
                   subtasks, users, idx, estimate, remaining, call>>

SprintState(all, active, future) ==
    CASE all /\ ~active /\ ~future -> ""
      [] ~all /\ active /\ ~future -> "active"
      [] ~all /\ ~active /\ future -> "future"
      [] OTHER -> "active,future"

SprintsBoard ==
    /\ pc = "sprints"
    /\ IF options.board = None
       THEN Fail(Config("board")) /\ UNCHANGED <<requests, board_id>>
       ELSE /\ board_id' = options.board
            /\ \E ok \in BOOLEAN :
                 /\ requests' = Append(requests,
                                   Request("boards.get", options.board[1], ok))
                 /\ IF ok THEN pc' = "sprints_list" /\ UNCHANGED err
                    ELSE Fail(JiraError)
    /\ UNCHANGED <<cmd, options, width, edited, issues, tasks, subtasks, users,
                   idx, estimate, remaining, table, call>>

SprintsList ==
    /\ pc = "sprints_list"
    /\ \E ok \in BOOLEAN :
         /\ requests' = Append(requests,
               Request("sprints.iter",
                       SprintState(options.all, options.active, options.future),
                       ok))
         /\ IF ~ok
            THEN Fail(JiraError) /\ UNCHANGED table
            ELSE \E list \in SprintLists :
                   /\ table' = Some(PrintTable(
                          [p \in 1..Len(list) |->
                              LET sprint == SortById(<<>>, list, TRUE)[p]
                              IN  <<sprint.id, sprint.name,
                                    UnwrapOr(sprint.state, "unknown"),
                                    ParseDate(sprint.start_date),
                                    ParseDate(sprint.end_date)>>],
                          "No sprints were found for this board"))
                   /\ pc' = "done"
                   /\ UNCHANGED err
    /\ UNCHANGED <<cmd, options, width, edited, board_id, issues, tasks,
                   subtasks, users, idx, estimate, remaining, call>>

(***************************************************************************)
(* Spec: one run of the program.  Client's methods are public and take any *)
(* ArgMatches, so every required argument may be missing; of board and     *)
(* sprint at most one is given (main's argument group "select").           *)
(***************************************************************************)
CredentialSets ==
    [organization : {None, Some("acme")}, user : {None, Some("me")},
     token : {None, Some("secret")}]

Selections == {<<None, None>>, <<Some("7"), None>>, <<None, Some("42")>>}

Init ==
    /\ Blank
    /\ pc = "main"
    /\ width = None
    /\ issues = <<>>
    /\ call = NoCall
    /\ \E c \in CredentialSets :
         \/ /\ cmd = "boards"
            /\ options = WithCredentials(NoOptions, c)
         \/ /\ cmd = "sprints"
            /\ \E b \in {None, Some("7")}, all \in BOOLEAN, active \in BOOLEAN,
                  future \in BOOLEAN :
                 options = [WithCredentials(NoOptions, c) EXCEPT
                               !.board = b, !.all = all, !.active = active,
                               !.future = future]
         \/ /\ cmd = "issues"
            /\ \E select \in Selections, a \in {None, Some("Alice")},
                  k \in {None, Some(Key(1))}, all \in BOOLEAN,
                  no_subtasks \in BOOLEAN :
                 options = [WithCredentials(NoOptions, c) EXCEPT
                               !.board = select[1], !.sprint = select[2],
                               !.assignee = a, !.issue = k, !.all = all,
                               !.no_subtasks = no_subtasks]
         \/ /\ cmd = "report"
            /\ \E select \in Selections, planning \in BOOLEAN,
                  update \in BOOLEAN :
                 options = [WithCredentials(NoOptions, c) EXCEPT
                               !.board = select[1], !.sprint = select[2],
                               !.planning = planning, !.update = update]

IssuesListShort == IssuesList(MaxFetched)

Next ==
    \/ New
    \/ Boards
    \/ SprintsBoard
    \/ SprintsList
    \/ IssuesBoardId
    \/ IssuesBoard
    \/ IssuesListShort
    \/ ReportBoardId
    \/ ReportBoard
    \/ ReportList
    \/ ReportEstimate
    \/ ReportRemaining
    \/ ReportEdit
    \/ ReportTimeSpent
    \/ ReportTable

Spec == Init /\ [][Next]_vars

(***************************************************************************)
(* Claims about the report (Spec).                                         *)
(***************************************************************************)
AggregationSteps == {"report_estimate", "report_remaining", "report_spent"}

StepField ==
    CASE pc = "report_estimate" -> "original_estimate_seconds"
      [] pc = "report_remaining" -> "remaining_estimate_seconds"
      [] OTHER -> "time_spent_seconds"

TotalName(field) ==
    CASE field = "original_estimate_seconds" -> "estimate"
      [] field = "remaining_estimate_seconds" -> "remaining"
      [] OTHER -> "actual"

FieldValue(issue, field) ==
    IF issue.timetracking = None THEN None ELSE issue.timetracking[1][field]

RECURSIVE SumOver(_, _, _, _)
\* The sum of the present values of field over the members of group from
\* position j on that belong to one of names.
SumOver(group, field, names, j) ==
    IF j > Len(group) THEN 0
    ELSE (IF EffectiveAssignee(group[j]) \in names
             /\ FieldValue(group[j], field) # None
          THEN FieldValue(group[j], field)[1] ELSE 0)
         + SumOver(group, field, names, j + 1)

Contributors(group, field, name) ==
    {j \in 1..Len(group) :
        /\ EffectiveAssignee(group[j]) = name
        /\ FieldValue(group[j], field) # None}

EntryOrZero(self, name) ==
    IF name \in DOMAIN self THEN self[name]
    ELSE [issues |-> 0, estimate |-> 0, remaining |-> 0, actual |-> 0]

\* C3: when the report aggregates a field for a top-level issue that has a
\* group in the subtask map, the step changes the accumulator by the
\* subtasks' present values only, each under the subtask's effective
\* assignee: an entry exists afterwards iff it existed before or a subtask
\* with a present value has that assignee, its total for the field grows by
\* the sum of those subtasks' values, its count by their number (estimate
\* field only), its other totals stay; the parent contributes nothing, and
\* the total kept for the issue is the sum over the subtasks alone.
C3_SubtasksOnly ==
    [][(/\ pc \in AggregationSteps
        /\ pc' # pc
        /\ tasks[idx].key \in DOMAIN subtasks)
       => LET group == subtasks[tasks[idx].key]
              field == StepField
              everyone == {EffectiveAssignee(group[j]) : j \in 1..Len(group)}
          IN  /\ DOMAIN users' =
                    DOMAIN users
                    \cup {n \in everyone : Contributors(group, field, n) # {}}
              /\ \A n \in DOMAIN users' :
                    LET old == EntryOrZero(users, n)
                    IN  /\ users'[n][TotalName(field)] =
                              old[TotalName(field)]
                              + SumOver(group, field, {n}, 1)
                        /\ users'[n].issues =
                              old.issues
                              + (IF field = "original_estimate_seconds"
                                 THEN Cardinality(Contributors(group, field, n))
                                 ELSE 0)
                        /\ \A other \in {"estimate", "remaining", "actual"}
                                        \ {TotalName(field)} :
                              users'[n][other] = old[other]
              /\ pc = "report_estimate"
                    => estimate' = SumOver(group, field, everyone, 1)
              /\ pc = "report_remaining"
                    => remaining' = SumOver(group, field, everyone, 1)]_vars

\* The estimate of the first top-level issue was just aggregated: the issue
\* is assigned to Alice and has an estimate of its own, its one subtask is
\* unassigned, and only "Unassigned" has an entry.
C3_Witness ==
    /\ pc = "report_remaining"
    /\ idx = 1
    /\ tasks[1].key \in DOMAIN subtasks
    /\ tasks[1].assignee = Some("Alice")
    /\ FieldValue(tasks[1], "original_estimate_seconds") = Some(90)
    /\ DOMAIN users = {"Unassigned"}
    /\ users["Unassigned"].issues = 1
    /\ users["Unassigned"].estimate = 90
    /\ estimate = 90

EditRequests == SelectSeq(requests, LAMBDA r : r.op = "issues.edit")

\* C9: in the report, edit requests are issued only in update mode, one per
\* top-level issue in top-level order, each after the issue's estimate and
\* remaining were aggregated and carrying them in whole minutes; only the
\* last edit can have failed, and then the command has ended with that
\* error, nothing was rendered, no later issue was edited, and the edits
\* made before are all still in place.
C9_UpdateEdits ==
    cmd = "report" =>
        LET edits == EditRequests
            n == Len(edits)
        IN  /\ ~options.update => n = 0
            /\ n <= Len(tasks)
            /\ \A j \in 1..n : edits[j].arg.id = tasks[j].id
            /\ \A j \in 1..(n - 1) : edits[j].ok
            /\ edited = [j \in 1..Len(edited) |-> edits[j].arg]
            /\ Len(edited) = Cardinality({j \in 1..n : edits[j].ok})
            /\ (options.update /\ pc \in {"report_estimate", "report_remaining",
                                          "report_edit"})
                  => n = idx - 1
            /\ (options.update /\ pc = "report_spent")
                  => /\ n = idx
                     /\ edits[n].arg.timetracking =
                           TimeTracking(estimate, remaining)
            /\ (options.update /\ pc = "done") => n = Len(tasks)
            /\ (n > 0 /\ ~edits[n].ok)
                  => /\ pc = "error"
                     /\ err = Some(JiraError)
                     /\ table = None
                     /\ Len(edited) = n - 1

\* The edit of the second of two top-level issues failed after the first
\* succeeded.
C9_Witness ==
    /\ cmd = "report"
    /\ pc = "error"
    /\ Len(tasks) = 2
    /\ Len(EditRequests) = 2
    /\ EditRequests[1].ok
    /\ ~EditRequests[2].ok
    /\ edited = <<EditRequests[1].arg>>
    /\ table = None

EndedWithConfigError == pc = "error" /\ err # None /\ err[1].kind = "Config"

NothingAggregated ==
    /\ tasks = <<>>
    /\ subtasks = EmptyMap
    /\ users = EmptyMap
    /\ edited = <<>>
    /\ table = None

\* C10 as stated: whenever a command ends with a configuration error, no
\* request has been issued and nothing has been aggregated.
C10_NoRequestBeforeConfigError ==
    EndedWithConfigError => requests = <<>> /\ NothingAggregated

\* C10, amended: whenever a command ends with a configuration error, nothing
\* has been aggregated, and no request has been issued, with one exception:
\* issues and report, given a sprint and no board, have fetched that sprint
\* (one successful request) when they end with the configuration error
\* "board" because the sprint has no origin board.
C10_ConfigErrorEarly ==
    EndedWithConfigError =>
        /\ NothingAggregated
        /\ \/ requests = <<>>
           \/ /\ cmd \in {"issues", "report"}
              /\ options.board = None
              /\ options.sprint # None
              /\ err = Some(Config("board"))
              /\ requests = <<Request("sprints.get", options.sprint[1], TRUE)>>

\* The report was given a sprint without an origin board.
C10_Witness ==
    /\ cmd = "report"
    /\ EndedWithConfigError
    /\ err = Some(Config("board"))
    /\ Len(requests) = 1

\* The fetched issues whose values C11 speaks of.
Eligible(issue) ==
    IF IsSubtask(issue) THEN issue.parent # None
    ELSE issue.key \notin DOMAIN subtasks

\* C11: when the report's loop has run through without an update failure,
\* every accumulator total is the sum of the present values of the fetched
\* issues that are subtasks with a parent key or top-level issues without
\* subtasks, each counted once under its effective assignee, the count of an
\* entry is the number of those issues with a present estimate, and no
\* other entry exists.
C11_RecordedOnce ==
    (cmd = "report" /\ pc = "report_table") =>
        LET eligible == SelectSeq(issues, Eligible)
            names == {EffectiveAssignee(eligible[j]) : j \in 1..Len(eligible)}
        IN  /\ DOMAIN users \subseteq names
            /\ \A n \in names :
                  /\ \A field \in Fields :
                        EntryOrZero(users, n)[TotalName(field)] =
                           SumOver(eligible, field, {n}, 1)
                  /\ EntryOrZero(users, n).issues =
                        Cardinality(Contributors(
                            eligible, "original_estimate_seconds", n))

(***************************************************************************)
(* SpecUsers, continued: the accumulator is handed to a for loop, which    *)
(* calls Iterator::next until it returns None.  table collects the items   *)
(* the loop received, call.self is the accumulator the loop was given.     *)
(***************************************************************************)
UsersIterNext ==
    /\ pc \in {"users", "users_iter"}
    /\ LET n == UsersNext(users)
           items == UnwrapOr(table, <<>>)
       IN  /\ users' = n.users
           /\ call' = [fn |-> "next", ret |-> n.item,
                       self |-> IF pc = "users" THEN users ELSE call.self]
           /\ table' = Some(IF n.item = None THEN items
                            ELSE Append(items, n.item[1]))
           /\ pc' = IF n.item = None THEN "users_end" ELSE "users_iter"
    /\ UNCHANGED <<cmd, options, width, requests, edited, board_id, issues,
                   tasks, subtasks, idx, estimate, remaining, err>>

NextUsersIter == NextUsers \/ UsersIterNext

SpecUsersIter == InitUsers /\ [][NextUsersIter]_vars

\* The order of the assignee names of SpecUsers as Rust's String orders them.
NameBefore(a, b) == <<a, b>> \in {<<"Alice", "Bob">>}

IsNextStep == pc \in {"users", "users_iter"} /\ pc' \in {"users_iter", "users_end"}

\* C12: each call of next on a non-empty accumulator returns the entry with
\* the least name, which is greater than every name returned before, and
\* removes exactly that entry; on an empty accumulator it returns no item
\* and the loop ends; when the loop has ended the accumulator is empty and
\* the items returned are the entries the loop was given, each once.
C12_IterationDrains ==
    /\ [][IsNextStep =>
            LET before == UnwrapOr(table, <<>>)
            IN  IF DOMAIN users = {}
                THEN /\ call'.ret = None
                     /\ users' = users
                     /\ table' = Some(before)
                     /\ pc' = "users_end"
                ELSE \E k \in DOMAIN users :
                       /\ call'.ret = Some(<<k, users[k]>>)
                       /\ \A o \in DOMAIN users \ {k} : NameBefore(k, o)
                       /\ \A j \in 1..Len(before) : NameBefore(before[j][1], k)
                       /\ users' = [o \in DOMAIN users \ {k} |-> users[o]]
                       /\ table' = Some(Append(before, <<k, users[k]>>))
                       /\ pc' = "users_iter"]_vars
    /\ [](pc = "users_end" =>
            /\ users = EmptyMap
            /\ Len(table[1]) = Cardinality(DOMAIN call.self)
            /\ \A k \in DOMAIN call.self :
                  \E j \in 1..Len(table[1]) : table[1][j] = <<k, call.self[k]>>)

\* The loop over an accumulator with two entries has ended.
C12_Witness ==
    /\ pc = "users_end"
    /\ call.ret = None
    /\ users = EmptyMap
    /\ Len(table[1]) = 2
    /\ table[1][1][1] = "Alice"
    /\ table[1][2][1] = "Bob"
    /\ table[1][2][2].issues = 1

\* The issues whose values make up what is written for a top-level issue.
WrittenFrom(t) == IF t.key \in DOMAIN subtasks THEN subtasks[t.key] ELSE <<t>>

\* The seconds of field over a sequence of issues, an absent value as 0.
SecondsOf(source, field) ==
    SumOver(source, field,
            {EffectiveAssignee(source[j]) : j \in 1..Len(source)}, 1)

IsFloorOfMinutes(written, seconds) ==
    60 * written <= seconds /\ seconds < 60 * (written + 1)

\* C13: every edit request of the report carries, for its top-level issue,
\* the whole minutes floor(S / 60) of the original and of the remaining
\* estimate, S being the sum of the seconds of the issue's subtasks in the
\* subtask map, or the issue's own seconds when it has no group, with an
\* absent value counted as 0.
C13_WrittenMinutes ==
    cmd = "report" =>
        \A j \in 1..Len(EditRequests) :
            \E i \in 1..Len(tasks) :
                /\ tasks[i].id = EditRequests[j].arg.id
                /\ IsFloorOfMinutes(
                       EditRequests[j].arg.timetracking.original_estimate,
                       SecondsOf(WrittenFrom(tasks[i]),
                                 "original_estimate_seconds"))
                /\ IsFloorOfMinutes(
                       EditRequests[j].arg.timetracking.remaining_estimate,
                       SecondsOf(WrittenFrom(tasks[i]),
                                 "remaining_estimate_seconds"))

\* An issue with 7200 seconds remaining of its own and one subtask with an
\* estimate of 90 and 45 seconds remaining was written with 1 and 0.
C13_Witness ==
    /\ cmd = "report"
    /\ Len(EditRequests) = 1
    /\ EditRequests[1].ok
    /\ tasks[1].key \in DOMAIN subtasks
    /\ FieldValue(tasks[1], "remaining_estimate_seconds") = Some(7200)
    /\ FieldValue(subtasks[tasks[1].key][1], "original_estimate_seconds")
          = Some(90)
    /\ EditRequests[1].arg.timetracking =
          [original_estimate |-> 1, remaining_estimate |-> 0]

\* The subtasks of t among the fetched issues.
SubtasksOf(t) ==
    {i \in InputIssues : IsSubtask(i) /\ i.parent = Some(t.key)}

\* A top-level issue that matches the assignee filter while it has subtasks
\* and none of them does.
OnlyParentMatches(t) ==
    /\ options.assignee # None
    /\ EffectiveAssignee(t) = options.assignee[1]
    /\ SubtasksOf(t) # {}
    /\ \A i \in SubtasksOf(t) : EffectiveAssignee(i) # options.assignee[1]

\* C14: in the issues view no group of the subtask map is empty, and with
\* an assignee filter a top-level issue that matches it while all of its
\* subtasks were excluded has no group and has exactly one row, whose
\* Sub-Tasks cell is "-" and whose status, assignee and time cells are the
\* issue's own.
C14_ExcludedSubtasksRow ==
    pc = "done" =>
        /\ \A k \in DOMAIN subtasks : subtasks[k] # <<>>
        /\ \A t \in TopLevel :
              OnlyParentMatches(t) =>
                 /\ t.key \notin DOMAIN subtasks
                 /\ Cardinality({j \in 1..Len(Rows) : Rows[j].key = t.key}) = 1
                 /\ \A j \in 1..Len(Rows) :
                       Rows[j].key = t.key =>
                          /\ Rows[j].subtasks = "-"
                          /\ Rows[j].status = UnwrapOr(t.status, "n/a")
                          /\ Rows[j].assignee = options.assignee[1]
                          /\ \A c \in {"original_estimate", "remaining_estimate",
                                       "time_spent"} :
                                Rows[j][c] =
                                   IF t.timetracking = None THEN "n/a"
                                   ELSE UnwrapOr(t.timetracking[1][c], "n/a")

\* Alice's issue, with a status and an estimate of its own and an unassigned
\* subtask, is shown under the filter "Alice".
C14_Witness ==
    /\ pc = "done"
    /\ options.assignee = Some("Alice")
    /\ \E t \in TopLevel :
          /\ OnlyParentMatches(t)
          /\ t.status # None
          /\ t.timetracking # None
          /\ t.timetracking[1].original_estimate # None
          /\ \E j \in 1..Len(Rows) :
                /\ Rows[j].key = t.key
                /\ Rows[j].subtasks = "-"
                /\ Rows[j].original_estimate = t.timetracking[1].original_estimate[1]

=============================================================================
